---- MODULE Spec2Model ----
(***************************************************************************)
(* A model of the Sift_PM bibliography pipeline (src/functions.py):        *)
(*   - remove_duplicates: grouping by pmid and resolution by title / year  *)
(*   - get_citations and the citation-filter loop of ref_gen               *)
(*   - the record-fetch loop of ref_gen (primary retries, fallback, write) *)
(* Python's None is modelled by the sentinels PmidNone, TitleNone,         *)
(* YearNone and CountNone.  A raised exception is modelled by a result     *)
(* record whose field "raised" is TRUE.                                    *)
(***************************************************************************)
EXTENDS Integers, Sequences, FiniteSets, TLC

(***************************************************************************)
(* Bounds of the model.                                                    *)
(***************************************************************************)
MaxRecs == 3
MaxPmids == 3
MaxKept == 2
MaxBib == 3

(***************************************************************************)
(* Values of the fields remove_duplicates reads.                           *)
(***************************************************************************)
PmidNone == "<None>"
TitleNone == "<None>"
YearNone == <<-1>>
RaiseOutcome == "<raise>"

PmidKeys == {PmidNone, "555", "777"}
Titles == {"Study A", "Study B"}
\* year strings, as sequences of digits (Python compares them as strings)
Years == {YearNone, <<2, 0, 1, 9>>, <<2, 0, 2, 1>>}
\* what the title service answers: an exception, an empty title, a title
RawTitles == {RaiseOutcome, "", "Study A", "Study C"}

Fields == [pmid : PmidKeys, title : Titles, year : Years]

\* the entries of a loaded .bib file; ID tells the entries (objects) apart
WithIds(f) ==
    [i \in DOMAIN f |-> [ID |-> i, pmid |-> f[i].pmid, title |-> f[i].title,
                         year |-> f[i].year]]

VARIABLES entries, titleService, dd_pc, unique_entries, lookups, again

dd_vars == <<entries, titleService, dd_pc, unique_entries, lookups, again>>

(***************************************************************************)
(* Values read by get_citations and by the citation filter of ref_gen.     *)
(***************************************************************************)
CountNone == -1
MaxRetries == 3
\* the lines of a PMID list file, stripped; an empty line gives ""
Ids == {"1001", "1002", "1003", ""}
\* len(link_set_db[0]['Link']) of a successful answer
LinkCounts == {0, 3, 15}
Thresholds == {0, 10}

\* what one Entrez.elink / Entrez.read round can do inside the try block
ServiceOutcomes ==
    {[kind |-> "ok", links |-> n] : n \in LinkCounts}
        \cup {[kind |-> k, links |-> 0] :
                 k \in {"empty", "parse_error", "http_error", "unexpected"}}

VARIABLES pmids, threshold, cf_pc, idx, retry, requests, outcomes,
          citation_count, counts, pmids_with_at_least_X_citations,
          pmids_sub_threshold, sub_threshold_file

cf_vars == <<pmids, threshold, cf_pc, idx, retry, requests, outcomes,
             citation_count, counts, pmids_with_at_least_X_citations,
             pmids_sub_threshold, sub_threshold_file>>

(***************************************************************************)
(* Values of the record-fetch loop of ref_gen.  Durations are counted in   *)
(* half seconds: initial_wait_time = 3 s, wait_time_increment = 0.5 s.     *)
(***************************************************************************)
InitialWaitTime == 6
WaitTimeIncrement == 1
MaxFetchRetries == 5
KeptIds == {"1001", "1002"}

\* bibtex_entry: None, or a record text described by where it came from, how
\* many DOI and pmid field lines it holds and whether it went through
\* sanitize_bibtex
EntryNone ==
    [source |-> "none", id |-> "", had_pmid |-> FALSE, doi_added |-> 0,
     pmid_added |-> 0, sanitized |-> FALSE]

\* pmid_to_doi: (doi, pmid), (None, pmid), (None, None), or an exception of
\* requests.get, which the function does not catch
DoiAnswers == {"doi", "no_doi", "failed", "raise"}
\* pmid_to_doi_via_crossref: (doi, pmid) or (None, pmid)
CrossrefAnswers == {"doi", "none"}
\* get_bibtex_via_crossref, the single fallback retrieval: a record text or
\* nothing (the function's body is not part of functions.py)
GetBibtexViaCrossrefOutcomes == {"record", "nothing"}

VARIABLES rf_pc, pos, attempt, wait_time, bibtex_entry, sanitized, postfix,
          sleeps, primary_outcomes, fallback_calls, doi_lookups,
          entrez_fail_count, crossref_fail_count, errors, bib_file, pmid_file,
          error_file, retrievals, writes

rf_vars == <<rf_pc, pos, attempt, wait_time, bibtex_entry, sanitized, postfix,
             sleeps, primary_outcomes, fallback_calls, doi_lookups,
             entrez_fail_count, crossref_fail_count, errors, bib_file,
             pmid_file, error_file, retrievals, writes>>

(***************************************************************************)
(* Values of the start of the script ref_generator.py, lines 46-89:        *)
(* Entrez.email and Entrez.api_key (lines 51-52 and the placeholders of    *)
(* lines 55-56), the files a previous run left in ./output and the         *)
(* identifier lists of ./pmid_lists.                                       *)
(***************************************************************************)
PlaceholderEmail == "placeholder@change.com"
PlaceholderApiKey == "8e7f2a9b4c1d6e3f9g2h5i8j1k4l7m0n9p2q"
Emails == {PlaceholderEmail, "joshpodmore@hotmail.co.uk"}
ApiKeys == {PlaceholderApiKey, "24c53e643b4cdb5719a09d9d29bcaa5d4809"}
OldOutputFiles == {"general_thresh.bib", "general_error.txt", "combined.bib"}
SearchSpecs == {"pubmed_general", "pubmed_needs"}

\* removed, lists_read and requested record the files os.remove deleted, the
\* identifier lists ref_gen opened and the lists ref_gen sent requests for
VARIABLES st_pc, email, api_key, targ_dir, pending, removed, pmid_dir,
          spec_list, lists_read, requested, file_paths

st_vars == <<st_pc, email, api_key, targ_dir, pending, removed, pmid_dir,
             spec_list, lists_read, requested, file_paths>>

(***************************************************************************)
(* Values of check_info_check_duplicates, lines 518-555: the entries of    *)
(* the loaded .bib file with the three fields the passes read.  A field    *)
(* the entry lacks reads as None; n tells the entries (objects) apart.     *)
(***************************************************************************)
ValNone == "<None>"
BibIds == {"smith2020", "jones2021"}
BibPmids == {ValNone, "", "555"}
BibDois == {ValNone, "", "10.1/x"}
BibFields == [ID : BibIds, pmid : BibPmids, doi : BibDois]

Numbered(f) ==
    [i \in DOMAIN f |-> [n |-> i, ID |-> f[i].ID, pmid |-> f[i].pmid,
                         doi |-> f[i].doi]]

VARIABLES ck_pc, bib_database, ck_entries, removed_ids, removed_pmids,
          removed_dois

ck_vars == <<ck_pc, bib_database, ck_entries, removed_ids, removed_pmids,
             removed_dois>>

vars == <<dd_vars, cf_vars, rf_vars, st_vars, ck_vars>>

(***************************************************************************)
(* remove_duplicates, lines 440-464.                                       *)
(***************************************************************************)
RECURSIVE KeysOrder(_, _)
KeysOrder(es, acc) ==
    IF es = <<>> THEN acc
    ELSE LET k == Head(es).pmid
         IN  KeysOrder(Tail(es),
                       IF \E i \in 1..Len(acc) : acc[i] = k THEN acc
                       ELSE Append(acc, k))

\* the keys of the dict "groups", in insertion order
GroupKeys(es) == KeysOrder(es, <<>>)

\* groups[k]
GroupOf(es, k) == SelectSeq(es, LAMBDA e : e.pmid = k)

\* the keys whose group has more than one entry
MultiKeys(es) == {k \in PmidKeys : Len(GroupOf(es, k)) > 1}

\* Python's str < str on digit strings
RECURSIVE StrLess(_, _)
StrLess(a, b) ==
    IF b = <<>> THEN FALSE
    ELSE IF a = <<>> THEN TRUE
    ELSE IF a[1] < b[1] THEN TRUE
    ELSE IF a[1] > b[1] THEN FALSE
    ELSE StrLess(Tail(a), Tail(b))

RECURSIVE InsertByYear(_, _)
InsertByYear(s, e) ==
    IF s = <<>> THEN <<e>>
    ELSE IF StrLess(e.year, Head(s).year) THEN <<e>> \o s
    ELSE <<Head(s)>> \o InsertByYear(Tail(s), e)

\* sorted(entries, key=lambda x: x.get('year')): a stable sort
RECURSIVE SortedByYear(_)
SortedByYear(es) ==
    IF es = <<>> THEN <<>>
    ELSE InsertByYear(SortedByYear(SubSeq(es, 1, Len(es) - 1)), es[Len(es)])

\* sorted() compares a None key with another key: TypeError
SortRaises(es) == Len(es) >= 2 /\ \E i \in 1..Len(es) : es[i].year = YearNone

\* fetch_title_from_biopython: no exception is caught; "title if title else None"
FetchTitle(svc, pmid) ==
    LET raw == svc[pmid]
    IN  IF raw = RaiseOutcome THEN [raised |-> TRUE, title |-> TitleNone]
        ELSE [raised |-> FALSE, title |-> IF raw # "" THEN raw ELSE TitleNone]

\* lines 460-461 and 463-464: the entry appended by the year fallback
ByYear(g, looked) ==
    IF SortRaises(g) THEN [raised |-> TRUE, kept |-> <<>>, looked |-> looked]
    ELSE [raised |-> FALSE, kept |-> <<SortedByYear(g)[1]>>, looked |-> looked]

ResolveGroup_KeepAllMatches(g, svc, k) ==
    IF Len(g) = 1 THEN [raised |-> FALSE, kept |-> <<g[1]>>, looked |-> FALSE]
    ELSE LET r == FetchTitle(svc, k)
         IN  IF r.raised THEN [raised |-> TRUE, kept |-> <<>>, looked |-> TRUE]
             ELSE IF r.title # TitleNone
                  THEN LET m == SelectSeq(g, LAMBDA e : e.title = r.title)
                       IN  IF m # <<>>
                           THEN [raised |-> FALSE, kept |-> m, looked |-> TRUE]
                           ELSE ByYear(g, TRUE)
                  ELSE ByYear(g, TRUE)

ResolveGroup_YearFirst(g, svc, k) ==
    IF Len(g) = 1 THEN [raised |-> FALSE, kept |-> <<g[1]>>, looked |-> FALSE]
    ELSE LET r == FetchTitle(svc, k)
         IN  IF r.raised THEN [raised |-> TRUE, kept |-> <<>>, looked |-> TRUE]
             ELSE ByYear(g, TRUE)

\* lines 451-464: what one group appends to unique_entries
ResolveGroup(g, svc, k) ==
    IF Len(g) = 1 THEN [raised |-> FALSE, kept |-> <<g[1]>>, looked |-> FALSE]
    ELSE LET r == FetchTitle(svc, k)
         IN  IF r.raised THEN [raised |-> TRUE, kept |-> <<>>, looked |-> TRUE]
             ELSE IF r.title # TitleNone
                  THEN LET m == SelectSeq(g, LAMBDA e : e.title = r.title)
                       IN  IF m # <<>>
                           THEN [raised |-> FALSE, kept |-> <<m[1]>>, looked |-> TRUE]
                           ELSE ByYear(g, TRUE)
                  ELSE ByYear(g, TRUE)

RECURSIVE ResolveAll(_, _, _, _)
ResolveAll(es, svc, keys, acc) ==
    IF keys = <<>> THEN acc
    ELSE LET k == Head(keys)
             r == ResolveGroup(GroupOf(es, k), svc, k)
             looked == IF r.looked THEN Append(acc.lookups, k) ELSE acc.lookups
         IN  IF r.raised
             THEN [raised |-> TRUE, unique_entries |-> <<>>, lookups |-> looked]
             ELSE ResolveAll(es, svc, Tail(keys),
                             [raised |-> FALSE,
                              unique_entries |-> acc.unique_entries \o r.kept,
                              lookups |-> looked])

RemoveDuplicates_ReverseOrder(es, svc) ==
    LET rev == [i \in 1..Len(GroupKeys(es)) |->
                    GroupKeys(es)[Len(GroupKeys(es)) + 1 - i]]
    IN  ResolveAll(es, svc, rev,
                   [raised |-> FALSE, unique_entries |-> <<>>, lookups |-> <<>>])

\* remove_duplicates: the list unique_entries it writes, or an exception;
\* lookups are the identifiers passed to fetch_title_from_biopython
RemoveDuplicates(es, svc) ==
    ResolveAll(es, svc, GroupKeys(es),
               [raised |-> FALSE, unique_entries |-> <<>>, lookups |-> <<>>])

NoResult == [raised |-> FALSE, unique_entries |-> <<>>, lookups |-> <<>>]

\* the variables of remove_duplicates while another function is examined
DedupIdle ==
    /\ entries = <<>>
    /\ titleService = <<>>
    /\ dd_pc = "idle"
    /\ unique_entries = <<>>
    /\ lookups = <<>>
    /\ again = NoResult

DedupInit ==
    /\ \E n \in 0..MaxRecs : \E f \in [1..n -> Fields] : entries = WithIds(f)
    /\ titleService = <<>>
    /\ dd_pc = "loaded"
    /\ unique_entries = <<>>
    /\ lookups = <<>>
    /\ again = NoResult

\* one run of remove_duplicates on the loaded entries; the title service's
\* answers for the identifiers of the groups of more than one entry are inputs
RunRemoveDuplicates ==
    /\ dd_pc = "loaded"
    /\ \E svc \in [MultiKeys(entries) -> RawTitles] :
          LET r == RemoveDuplicates(entries, svc)
          IN  /\ titleService' = svc
              /\ dd_pc' = IF r.raised THEN "raised" ELSE "resolved"
              /\ unique_entries' = r.unique_entries
              /\ lookups' = r.lookups
    /\ UNCHANGED <<entries, again>>
    /\ UNCHANGED <<cf_vars, rf_vars, st_vars, ck_vars>>

\* remove_duplicates applied to its own output, the title service unchanged
RunRemoveDuplicatesAgain ==
    /\ dd_pc = "resolved"
    /\ again' = RemoveDuplicates(unique_entries, titleService)
    /\ dd_pc' = "rerun"
    /\ UNCHANGED <<entries, titleService, unique_entries, lookups>>
    /\ UNCHANGED <<cf_vars, rf_vars, st_vars, ck_vars>>

DedupNext == RunRemoveDuplicates \/ RunRemoveDuplicatesAgain

(***************************************************************************)
(* get_citations (lines 190-242) and the citation filter of ref_gen        *)
(* (lines 646-678).                                                        *)
(***************************************************************************)
GetCitationsStep_RetryUnexpected(r, outcome) ==
    IF outcome.kind = "ok"
    THEN [returned |-> TRUE, value |-> outcome.links, retry |-> r]
    ELSE IF outcome.kind \in {"empty", "parse_error"}
    THEN [returned |-> TRUE, value |-> 0, retry |-> r]
    ELSE IF r < MaxRetries - 1
         THEN [returned |-> FALSE, value |-> CountNone, retry |-> r + 1]
         ELSE [returned |-> TRUE, value |-> CountNone, retry |-> r]

\* one pass of the body of "for retry in range(max_retries)": the try block
\* and its except clauses
GetCitationsStep(r, outcome) ==
    IF outcome.kind = "ok"
    THEN [returned |-> TRUE, value |-> outcome.links, retry |-> r]
    ELSE IF outcome.kind \in {"empty", "parse_error"}
    THEN [returned |-> TRUE, value |-> 0, retry |-> r]
    ELSE IF outcome.kind = "http_error"
    THEN IF r < MaxRetries - 1
         THEN [returned |-> FALSE, value |-> CountNone, retry |-> r + 1]
         ELSE [returned |-> TRUE, value |-> CountNone, retry |-> r]
    ELSE [returned |-> TRUE, value |-> CountNone, retry |-> r]

Keeps_NoneAsZero(count, thr) == (IF count = CountNone THEN 0 ELSE count) >= thr

\* lines 662-668: the branch that appends to pmids_with_at_least_X_citations
Keeps(count, thr) == count # CountNone /\ count >= thr

\* the variables of the citation filter while another function is examined
FilterIdle ==
    /\ pmids = <<>>
    /\ threshold = 0
    /\ cf_pc = "idle"
    /\ idx = 1
    /\ retry = 0
    /\ requests = 0
    /\ outcomes = <<>>
    /\ citation_count = CountNone
    /\ counts = <<>>
    /\ pmids_with_at_least_X_citations = <<>>
    /\ pmids_sub_threshold = <<>>
    /\ sub_threshold_file = <<>>

FilterInit ==
    /\ \E n \in 0..MaxPmids : pmids \in [1..n -> Ids]
    /\ threshold \in Thresholds
    /\ cf_pc = "loop"
    /\ idx = 1
    /\ retry = 0
    /\ requests = 0
    /\ outcomes = <<>>
    /\ citation_count = CountNone
    /\ counts = <<>>
    /\ pmids_with_at_least_X_citations = <<>>
    /\ pmids_sub_threshold = <<>>
    /\ sub_threshold_file = <<>>

\* line 660 and lines 206-210: the call, the validity test, the loop entry
CallGetCitations ==
    /\ cf_pc = "loop"
    /\ idx <= Len(pmids)
    /\ requests' = 0
    /\ outcomes' = <<>>
    /\ retry' = 0
    /\ IF pmids[idx] = ""
       THEN cf_pc' = "returned" /\ citation_count' = 0
       ELSE cf_pc' = "request" /\ citation_count' = CountNone
    /\ UNCHANGED <<pmids, threshold, idx, counts, pmids_with_at_least_X_citations,
                   pmids_sub_threshold, sub_threshold_file>>
    /\ UNCHANGED <<dd_vars, rf_vars, st_vars, ck_vars>>

\* lines 211-242: one request and what the function does with its outcome
ElinkRequest ==
    /\ cf_pc = "request"
    /\ \E outcome \in ServiceOutcomes :
          LET step == GetCitationsStep(retry, outcome)
          IN  /\ requests' = requests + 1
              /\ outcomes' = Append(outcomes, outcome)
              /\ retry' = step.retry
              /\ citation_count' = step.value
              /\ cf_pc' = IF step.returned THEN "returned" ELSE "request"
    /\ UNCHANGED <<pmids, threshold, idx, counts, pmids_with_at_least_X_citations,
                   pmids_sub_threshold, sub_threshold_file>>
    /\ UNCHANGED <<dd_vars, rf_vars, st_vars, ck_vars>>

\* lines 662-670: the identifier goes to one of the two lists
Classify ==
    /\ cf_pc = "returned"
    /\ IF Keeps(citation_count, threshold)
       THEN /\ pmids_with_at_least_X_citations' =
                   Append(pmids_with_at_least_X_citations, pmids[idx])
            /\ UNCHANGED pmids_sub_threshold
       ELSE /\ pmids_sub_threshold' = Append(pmids_sub_threshold, pmids[idx])
            /\ UNCHANGED pmids_with_at_least_X_citations
    /\ counts' = Append(counts, citation_count)
    /\ idx' = idx + 1
    /\ cf_pc' = "loop"
    /\ retry' = 0
    /\ requests' = 0
    /\ outcomes' = <<>>
    /\ UNCHANGED <<pmids, threshold, citation_count, sub_threshold_file>>
    /\ UNCHANGED <<dd_vars, rf_vars, st_vars, ck_vars>>

\* lines 672-678: the loop is over, the rejected identifiers are saved
SaveSubThreshold ==
    /\ cf_pc = "loop"
    /\ idx > Len(pmids)
    /\ sub_threshold_file' = pmids_sub_threshold
    /\ cf_pc' = "filtered"
    /\ UNCHANGED <<pmids, threshold, idx, retry, requests, outcomes,
                   citation_count, counts, pmids_with_at_least_X_citations,
                   pmids_sub_threshold>>
    /\ UNCHANGED <<dd_vars, rf_vars, st_vars, ck_vars>>

FilterNext == CallGetCitations \/ ElinkRequest \/ Classify \/ SaveSubThreshold

(***************************************************************************)
(* The record-fetch loop of ref_gen (lines 680-762) and the functions it   *)
(* calls.  sleeps, primary_outcomes, fallback_calls and doi_lookups record, *)
(* for the identifier being processed, the calls of time.sleep (line 707), *)
(* get_bibtex_for_pmid (line 701), get_bibtex_via_crossref (line 716) and  *)
(* of the two DOI services (lines 368-372); writes records the calls of    *)
(* bib_file.write for it (lines 730 and 736): the text and the result.      *)
(***************************************************************************)
\* pmid_to_doi, lines 284-305; "" stands for a pmid_out of None
PmidToDoi(pmid, answer) ==
    [doi |-> answer = "doi",
     pmid_out |-> IF answer \in {"doi", "no_doi"} THEN pmid ELSE ""]

\* pmid_to_doi_via_crossref, lines 327-341
PmidToDoiViaCrossref(pmid, answer) == [doi |-> answer = "doi", pmid_out |-> pmid]

\* the services one call of append_doi_pmid_to_entry queries, lines 368-372,
\* with their answers: pmid_to_doi first; pmid_to_doi_via_crossref if that
\* returned a doi of None; nothing more if it raised
DoiLookups(a1, a2) ==
    IF a1 \in {"doi", "raise"}
    THEN <<[service |-> "entrez", answer |-> a1]>>
    ELSE <<[service |-> "entrez", answer |-> a1],
           [service |-> "crossref", answer |-> a2]>>

\* append_doi_pmid_to_entry, lines 368-405: the field lines it inserts
AppendDoiPmid(entry, pmid, a1, a2) ==
    LET first == PmidToDoi(pmid, a1)
        res == IF first.doi THEN first ELSE PmidToDoiViaCrossref(pmid, a2)
        pmid_exists == entry.had_pmid \/ entry.pmid_added > 0
    IN  [entry EXCEPT
            !.doi_added = @ + (IF res.doi THEN 1 ELSE 0),
            !.pmid_added = @ + (IF res.pmid_out # "" /\ ~pmid_exists THEN 1 ELSE 0)]

\* sanitize_bibtex, lines 259-260
SanitizeBibtex(entry) == [entry EXCEPT !.sanitized = TRUE]

\* the pairs of answers of the two DOI services; the second is asked only
\* when the first gave no DOI
AnswerPairs ==
    {<<a1, a2>> \in DoiAnswers \X (CrossrefAnswers \cup {"unasked"}) :
        (a2 = "unasked") <=> (a1 \in {"doi", "raise"})}

\* the variables of the fetch loop while another function is examined
FetchIdle ==
    /\ rf_pc = "idle"
    /\ pos = 0
    /\ attempt = 0
    /\ wait_time = InitialWaitTime
    /\ bibtex_entry = EntryNone
    /\ sanitized = EntryNone
    /\ postfix = ""
    /\ sleeps = <<>>
    /\ primary_outcomes = <<>>
    /\ fallback_calls = 0
    /\ doi_lookups = <<>>
    /\ entrez_fail_count = 0
    /\ crossref_fail_count = 0
    /\ errors = <<>>
    /\ bib_file = <<>>
    /\ pmid_file = <<>>
    /\ error_file = <<>>
    /\ retrievals = <<>>
    /\ writes = <<>>

\* the filter's variables at line 678 after a run that kept every identifier
\* of list (threshold 0, every count 0)
FilterDoneWith(list) ==
    /\ pmids = list
    /\ threshold = 0
    /\ cf_pc = "filtered"
    /\ idx = Len(list) + 1
    /\ retry = 0
    /\ requests = 0
    /\ outcomes = <<>>
    /\ citation_count = IF list = <<>> THEN CountNone ELSE 0
    /\ counts = [i \in 1..Len(list) |-> 0]
    /\ pmids_with_at_least_X_citations = list
    /\ pmids_sub_threshold = <<>>
    /\ sub_threshold_file = <<>>

\* lines 680-692: the counters are set, the two output files are opened
FetchInit ==
    /\ \E n \in 0..MaxKept : \E list \in [1..n -> KeptIds] : FilterDoneWith(list)
    /\ rf_pc = "next"
    /\ pos = 0
    /\ attempt = 0
    /\ wait_time = InitialWaitTime
    /\ bibtex_entry = EntryNone
    /\ sanitized = EntryNone
    /\ postfix = ""
    /\ sleeps = <<>>
    /\ primary_outcomes = <<>>
    /\ fallback_calls = 0
    /\ doi_lookups = <<>>
    /\ entrez_fail_count = 0
    /\ crossref_fail_count = 0
    /\ errors = <<>>
    /\ bib_file = <<>>
    /\ pmid_file = <<>>
    /\ error_file = <<>>
    /\ retrievals = <<>>
    /\ writes = <<>>

\* the identifier of the current iteration
CurrentPmid == pmids_with_at_least_X_citations[pos]

\* how the retrieval of lines 700-725 ended for the current identifier: the
\* while loop broke on a record or ran out of attempts, and what the fallback
\* call gave; retrievals lists these outcomes in the order of the identifiers
Retrieval(outs, fb) ==
    [pmid |-> CurrentPmid,
     primary |-> IF outs # <<>> /\ outs[Len(outs)] = "ok" THEN "ok" ELSE "exhausted",
     fallback |-> fb]

\* lines 693-697: the next identifier; its line goes to the in-threshold file
NextPmid ==
    /\ rf_pc = "next"
    /\ pos < Len(pmids_with_at_least_X_citations)
    /\ pos' = pos + 1
    /\ pmid_file' = Append(pmid_file, pmids_with_at_least_X_citations[pos + 1])
    /\ wait_time' = InitialWaitTime
    /\ attempt' = 0
    /\ bibtex_entry' = EntryNone
    /\ sleeps' = <<>>
    /\ primary_outcomes' = <<>>
    /\ fallback_calls' = 0
    /\ doi_lookups' = <<>>
    /\ rf_pc' = IF 0 < MaxFetchRetries THEN "primary" ELSE "exhausted"
    /\ UNCHANGED <<sanitized, postfix, entrez_fail_count, crossref_fail_count,
                   errors, bib_file, error_file>>
    /\ UNCHANGED retrievals
    /\ writes' = <<>>
    /\ UNCHANGED <<dd_vars, cf_vars, st_vars, ck_vars>>

\* lines 700-704: get_bibtex_for_pmid returns a record text
PrimarySuccess ==
    /\ rf_pc = "primary"
    /\ \E had \in BOOLEAN :
          bibtex_entry' = [source |-> "primary", id |-> CurrentPmid,
                           had_pmid |-> had, doi_added |-> 0, pmid_added |-> 0,
                           sanitized |-> FALSE]
    /\ primary_outcomes' = Append(primary_outcomes, "ok")
    /\ postfix' = "Entrez success"
    /\ rf_pc' = "enrich"
    /\ UNCHANGED <<pos, attempt, wait_time, sanitized, sleeps, fallback_calls,
                   doi_lookups, entrez_fail_count, crossref_fail_count, errors,
                   bib_file, pmid_file, error_file>>
    /\ retrievals' = Append(retrievals, Retrieval(primary_outcomes', "unasked"))
    /\ UNCHANGED writes
    /\ UNCHANGED <<dd_vars, cf_vars, st_vars, ck_vars>>

PrimaryFailure_OneMoreAttempt ==
    /\ rf_pc = "primary"
    /\ bibtex_entry' = EntryNone
    /\ primary_outcomes' = Append(primary_outcomes, "fail")
    /\ postfix' = "Entrez retry"
    /\ sleeps' = Append(sleeps, wait_time)
    /\ wait_time' = wait_time + WaitTimeIncrement
    /\ attempt' = attempt + 1
    /\ rf_pc' = IF attempt + 1 <= MaxFetchRetries THEN "primary" ELSE "exhausted"
    /\ UNCHANGED <<pos, sanitized, fallback_calls, doi_lookups,
                   entrez_fail_count, crossref_fail_count, errors, bib_file,
                   pmid_file, error_file>>
    /\ UNCHANGED retrievals
    /\ UNCHANGED writes
    /\ UNCHANGED <<dd_vars, cf_vars, st_vars, ck_vars>>

\* lines 700-701 and 705-709: get_bibtex_for_pmid returns None (the tool
\* failed) or an empty text; sleep, lengthen the wait, count the attempt
PrimaryFailure ==
    /\ rf_pc = "primary"
    /\ bibtex_entry' = EntryNone
    /\ primary_outcomes' = Append(primary_outcomes, "fail")
    /\ postfix' = "Entrez retry"
    /\ sleeps' = Append(sleeps, wait_time)
    /\ wait_time' = wait_time + WaitTimeIncrement
    /\ attempt' = attempt + 1
    /\ rf_pc' = IF attempt + 1 < MaxFetchRetries THEN "primary" ELSE "exhausted"
    /\ UNCHANGED <<pos, sanitized, fallback_calls, doi_lookups,
                   entrez_fail_count, crossref_fail_count, errors, bib_file,
                   pmid_file, error_file>>
    /\ UNCHANGED retrievals
    /\ UNCHANGED writes
    /\ UNCHANGED <<dd_vars, cf_vars, st_vars, ck_vars>>

PrimaryExhausted_NotCounted ==
    /\ rf_pc = "exhausted"
    /\ rf_pc' = "fallback"
    /\ UNCHANGED <<pos, attempt, wait_time, bibtex_entry, sanitized, postfix,
                   sleeps, primary_outcomes, fallback_calls, doi_lookups,
                   entrez_fail_count, crossref_fail_count, errors, bib_file,
                   pmid_file, error_file>>
    /\ UNCHANGED retrievals
    /\ UNCHANGED writes
    /\ UNCHANGED <<dd_vars, cf_vars, st_vars, ck_vars>>

\* lines 711-713: the while loop ended without a record
PrimaryExhausted ==
    /\ rf_pc = "exhausted"
    /\ entrez_fail_count' = entrez_fail_count + 1
    /\ rf_pc' = "fallback"
    /\ UNCHANGED <<pos, attempt, wait_time, bibtex_entry, sanitized, postfix,
                   sleeps, primary_outcomes, fallback_calls, doi_lookups,
                   crossref_fail_count, errors, bib_file, pmid_file, error_file>>
    /\ UNCHANGED retrievals
    /\ UNCHANGED writes
    /\ UNCHANGED <<dd_vars, cf_vars, st_vars, ck_vars>>

\* lines 716-719: the fallback retrieval returns a record text
FallbackSuccess ==
    /\ rf_pc = "fallback"
    /\ "record" \in GetBibtexViaCrossrefOutcomes
    /\ fallback_calls' = fallback_calls + 1
    /\ \E had \in BOOLEAN :
          bibtex_entry' = [source |-> "fallback", id |-> CurrentPmid,
                           had_pmid |-> had, doi_added |-> 0, pmid_added |-> 0,
                           sanitized |-> FALSE]
    /\ postfix' = "Crossref success"
    /\ rf_pc' = "enrich"
    /\ UNCHANGED <<pos, attempt, wait_time, sanitized, sleeps, primary_outcomes,
                   doi_lookups, entrez_fail_count, crossref_fail_count, errors,
                   bib_file, pmid_file, error_file>>
    /\ retrievals' = Append(retrievals, Retrieval(primary_outcomes, "record"))
    /\ UNCHANGED writes
    /\ UNCHANGED <<dd_vars, cf_vars, st_vars, ck_vars>>

\* lines 716 and 720-725: the fallback retrieval returns nothing; the failure
\* is counted and logged and the loop continues with the next identifier
FallbackFailure ==
    /\ rf_pc = "fallback"
    /\ "nothing" \in GetBibtexViaCrossrefOutcomes
    /\ fallback_calls' = fallback_calls + 1
    /\ bibtex_entry' = EntryNone
    /\ crossref_fail_count' = crossref_fail_count + 1
    /\ postfix' = "Failed both"
    /\ errors' = Append(errors, [pmid |-> CurrentPmid, kind |-> "retrieve"])
    /\ rf_pc' = "next"
    /\ UNCHANGED <<pos, attempt, wait_time, sanitized, sleeps, primary_outcomes,
                   doi_lookups, entrez_fail_count, bib_file, pmid_file,
                   error_file>>
    /\ retrievals' = Append(retrievals, Retrieval(primary_outcomes, "nothing"))
    /\ UNCHANGED writes
    /\ UNCHANGED <<dd_vars, cf_vars, st_vars, ck_vars>>

\* line 716: functions.py neither defines nor imports get_bibtex_via_crossref;
\* the call raises NameError, which nothing in ref_gen catches
FallbackUnbound ==
    /\ rf_pc = "fallback"
    /\ fallback_calls' = fallback_calls + 1
    /\ rf_pc' = "aborted"
    /\ UNCHANGED <<pos, attempt, wait_time, bibtex_entry, sanitized, postfix,
                   sleeps, primary_outcomes, doi_lookups, entrez_fail_count,
                   crossref_fail_count, errors, bib_file, pmid_file, error_file>>
    /\ UNCHANGED retrievals
    /\ UNCHANGED writes
    /\ UNCHANGED <<dd_vars, cf_vars, st_vars, ck_vars>>

\* line 729: the record is enriched; an exception of requests.get inside
\* pmid_to_doi is no UnicodeEncodeError and leaves ref_gen
Enrich ==
    /\ rf_pc = "enrich"
    /\ \E a \in AnswerPairs :
          IF a[1] = "raise"
          THEN /\ doi_lookups' = Append(doi_lookups, DoiLookups(a[1], a[2]))
               /\ rf_pc' = "aborted"
               /\ UNCHANGED bibtex_entry
          ELSE /\ doi_lookups' = Append(doi_lookups, DoiLookups(a[1], a[2]))
               /\ rf_pc' = "write"
               /\ bibtex_entry' = AppendDoiPmid(bibtex_entry, CurrentPmid,
                                                a[1], a[2])
    /\ UNCHANGED <<pos, attempt, wait_time, sanitized, postfix, sleeps,
                   primary_outcomes, fallback_calls, entrez_fail_count,
                   crossref_fail_count, errors, bib_file, pmid_file, error_file>>
    /\ UNCHANGED retrievals
    /\ UNCHANGED writes
    /\ UNCHANGED <<dd_vars, cf_vars, st_vars, ck_vars>>

\* lines 730-731: the enriched record is written
WriteEntry ==
    /\ rf_pc = "write"
    /\ bib_file' = Append(bib_file, bibtex_entry)
    /\ postfix' = "Written"
    /\ rf_pc' = "next"
    /\ UNCHANGED <<pos, attempt, wait_time, bibtex_entry, sanitized, sleeps,
                   primary_outcomes, fallback_calls, doi_lookups,
                   entrez_fail_count, crossref_fail_count, errors, pmid_file,
                   error_file>>
    /\ UNCHANGED retrievals
    /\ writes' = Append(writes, [text |-> "enriched", written |-> TRUE])
    /\ UNCHANGED <<dd_vars, cf_vars, st_vars, ck_vars>>

\* lines 730 and 732: the write raises UnicodeEncodeError, nothing is written
WriteUnicodeError ==
    /\ rf_pc = "write"
    /\ rf_pc' = "sanitize"
    /\ UNCHANGED <<pos, attempt, wait_time, bibtex_entry, sanitized, postfix,
                   sleeps, primary_outcomes, fallback_calls, doi_lookups,
                   entrez_fail_count, crossref_fail_count, errors, bib_file,
                   pmid_file, error_file>>
    /\ UNCHANGED retrievals
    /\ writes' = Append(writes, [text |-> "enriched", written |-> FALSE])
    /\ UNCHANGED <<dd_vars, cf_vars, st_vars, ck_vars>>

\* lines 734-735: bibtex_entry, already enriched at line 729, is sanitized
\* and enriched again
SanitizeAndEnrich ==
    /\ rf_pc = "sanitize"
    /\ \E a \in AnswerPairs :
          IF a[1] = "raise"
          THEN /\ doi_lookups' = Append(doi_lookups, DoiLookups(a[1], a[2]))
               /\ rf_pc' = "aborted"
               /\ UNCHANGED sanitized
          ELSE /\ doi_lookups' = Append(doi_lookups, DoiLookups(a[1], a[2]))
               /\ rf_pc' = "sanitized_write"
               /\ sanitized' = AppendDoiPmid(SanitizeBibtex(bibtex_entry),
                                             CurrentPmid, a[1], a[2])
    /\ UNCHANGED <<pos, attempt, wait_time, bibtex_entry, postfix, sleeps,
                   primary_outcomes, fallback_calls, entrez_fail_count,
                   crossref_fail_count, errors, bib_file, pmid_file, error_file>>
    /\ UNCHANGED retrievals
    /\ UNCHANGED writes
    /\ UNCHANGED <<dd_vars, cf_vars, st_vars, ck_vars>>

\* lines 736-737: the sanitized record is written
WriteSanitized ==
    /\ rf_pc = "sanitized_write"
    /\ bib_file' = Append(bib_file, sanitized)
    /\ postfix' = "Sanitized & Written"
    /\ rf_pc' = "next"
    /\ UNCHANGED <<pos, attempt, wait_time, bibtex_entry, sanitized, sleeps,
                   primary_outcomes, fallback_calls, doi_lookups,
                   entrez_fail_count, crossref_fail_count, errors, pmid_file,
                   error_file>>
    /\ UNCHANGED retrievals
    /\ writes' = Append(writes, [text |-> "sanitized", written |-> TRUE])
    /\ UNCHANGED <<dd_vars, cf_vars, st_vars, ck_vars>>

WriteSanitizedUnicodeError_NotLogged ==
    /\ rf_pc = "sanitized_write"
    /\ postfix' = "Write failed"
    /\ rf_pc' = "next"
    /\ UNCHANGED <<pos, attempt, wait_time, bibtex_entry, sanitized, sleeps,
                   primary_outcomes, fallback_calls, doi_lookups,
                   entrez_fail_count, crossref_fail_count, errors, bib_file,
                   pmid_file, error_file>>
    /\ UNCHANGED retrievals
    /\ writes' = Append(writes, [text |-> "sanitized", written |-> FALSE])
    /\ UNCHANGED <<dd_vars, cf_vars, st_vars, ck_vars>>

\* lines 736 and 738-741: the second write raises UnicodeEncodeError too
WriteSanitizedUnicodeError ==
    /\ rf_pc = "sanitized_write"
    /\ errors' = Append(errors, [pmid |-> CurrentPmid, kind |-> "write"])
    /\ postfix' = "Write failed"
    /\ rf_pc' = "next"
    /\ UNCHANGED <<pos, attempt, wait_time, bibtex_entry, sanitized, sleeps,
                   primary_outcomes, fallback_calls, doi_lookups,
                   entrez_fail_count, crossref_fail_count, bib_file, pmid_file,
                   error_file>>
    /\ UNCHANGED retrievals
    /\ writes' = Append(writes, [text |-> "sanitized", written |-> FALSE])
    /\ UNCHANGED <<dd_vars, cf_vars, st_vars, ck_vars>>

\* lines 743-762: the loop is over; the error log is written if any error
\* was collected
FinishRefGen ==
    /\ rf_pc = "next"
    /\ pos = Len(pmids_with_at_least_X_citations)
    /\ error_file' = errors
    /\ rf_pc' = "done"
    /\ UNCHANGED <<pos, attempt, wait_time, bibtex_entry, sanitized, postfix,
                   sleeps, primary_outcomes, fallback_calls, doi_lookups,
                   entrez_fail_count, crossref_fail_count, errors, bib_file,
                   pmid_file>>
    /\ UNCHANGED retrievals
    /\ UNCHANGED writes
    /\ UNCHANGED <<dd_vars, cf_vars, st_vars, ck_vars>>

FetchNext ==
    \/ NextPmid \/ PrimarySuccess \/ PrimaryFailure \/ PrimaryExhausted
    \/ FallbackSuccess \/ FallbackFailure \/ FallbackUnbound
    \/ Enrich \/ WriteEntry \/ WriteUnicodeError
    \/ SanitizeAndEnrich \/ WriteSanitized \/ WriteSanitizedUnicodeError
    \/ FinishRefGen

(***************************************************************************)
(* The start of ref_generator.py: the credentials are validated, the old   *)
(* output files are deleted, ref_gen runs for every identifier list.       *)
(***************************************************************************)
ValidateNcbiCredentials_BothPlaceholders(e, k) ==
    IF e = PlaceholderEmail /\ k = PlaceholderApiKey THEN "exit" ELSE "return"

\* validate_ncbi_credentials, functions.py lines 127-135: sys.exit(1) or return
ValidateNcbiCredentials(e, k) ==
    IF e = PlaceholderEmail \/ k = PlaceholderApiKey THEN "exit" ELSE "return"

\* the variables of the script start while a function is examined
StartIdle ==
    /\ st_pc = "idle"
    /\ email = ""
    /\ api_key = ""
    /\ targ_dir = {}
    /\ pending = {}
    /\ removed = {}
    /\ pmid_dir = {}
    /\ spec_list = {}
    /\ lists_read = {}
    /\ requested = {}
    /\ file_paths = {}

\* ref_generator.py lines 46-52: the encoding is set up and the credentials
\* are assigned; nothing of ./output or ./pmid_lists has been touched
StartInit ==
    /\ st_pc = "start"
    /\ email \in Emails
    /\ api_key \in ApiKeys
    /\ targ_dir \in SUBSET OldOutputFiles
    /\ pmid_dir \in SUBSET SearchSpecs
    /\ pending = {}
    /\ removed = {}
    /\ spec_list = {}
    /\ lists_read = {}
    /\ requested = {}
    /\ file_paths = {}

\* ref_generator.py line 58; on return lines 63-71 set the parameters and
\* glob the old output files
ValidateCredentials ==
    /\ st_pc = "start"
    /\ IF ValidateNcbiCredentials(email, api_key) = "exit"
       THEN /\ st_pc' = "exited"
            /\ UNCHANGED pending
       ELSE /\ st_pc' = "clear"
            /\ pending' = targ_dir
    /\ UNCHANGED <<email, api_key, targ_dir, removed, pmid_dir, spec_list,
                   lists_read, requested, file_paths>>
    /\ UNCHANGED <<dd_vars, cf_vars, rf_vars, ck_vars>>

\* ref_generator.py lines 71-76: os.remove deletes the file or raises, and
\* the exception is caught and reported
RemoveOldFile ==
    /\ st_pc = "clear"
    /\ \E fpath \in pending : \E deleted \in BOOLEAN :
          /\ pending' = pending \ {fpath}
          /\ targ_dir' = IF deleted THEN targ_dir \ {fpath} ELSE targ_dir
          /\ removed' = IF deleted THEN removed \cup {fpath} ELSE removed
    /\ UNCHANGED <<st_pc, email, api_key, pmid_dir, spec_list, lists_read,
                   requested, file_paths>>
    /\ UNCHANGED <<dd_vars, cf_vars, rf_vars, ck_vars>>

\* ref_generator.py lines 81-83: the identifier lists of ./pmid_lists
ListSpecs ==
    /\ st_pc = "clear"
    /\ pending = {}
    /\ spec_list' = pmid_dir
    /\ st_pc' = "run"
    /\ UNCHANGED <<email, api_key, targ_dir, pending, removed, pmid_dir,
                   lists_read, requested, file_paths>>
    /\ UNCHANGED <<dd_vars, cf_vars, rf_vars, ck_vars>>

\* ref_generator.py lines 85-89: ref_gen opens the list (functions.py lines
\* 646-651), sends requests if the list holds identifiers, and returns the
\* path of its .bib file or leaves with an exception
RefGenCall ==
    /\ st_pc = "run"
    /\ \E search_spec \in spec_list \ lists_read :
       \E sends \in BOOLEAN : \E returns \in BOOLEAN :
          /\ lists_read' = lists_read \cup {search_spec}
          /\ requested' = IF sends THEN requested \cup {search_spec} ELSE requested
          /\ file_paths' = IF returns THEN file_paths \cup {search_spec}
                                      ELSE file_paths
          /\ st_pc' = IF returns THEN "run" ELSE "aborted"
    /\ UNCHANGED <<email, api_key, targ_dir, pending, removed, pmid_dir,
                   spec_list>>
    /\ UNCHANGED <<dd_vars, cf_vars, rf_vars, ck_vars>>

\* ref_generator.py lines 91-92: every list was processed
SpecsDone ==
    /\ st_pc = "run"
    /\ lists_read = spec_list
    /\ st_pc' = "combine"
    /\ UNCHANGED <<email, api_key, targ_dir, pending, removed, pmid_dir,
                   spec_list, lists_read, requested, file_paths>>
    /\ UNCHANGED <<dd_vars, cf_vars, rf_vars, ck_vars>>

StartNext ==
    \/ ValidateCredentials \/ RemoveOldFile \/ ListSpecs \/ RefGenCall
    \/ SpecsDone

(***************************************************************************)
(* check_info_check_duplicates, lines 518-555: the helper remove_duplicates *)
(* of lines 529-543 and its three calls.                                   *)
(***************************************************************************)
\* the loop variables before the first entry, lines 530-532
LoopStart == [seen |-> {}, new_entries |-> <<>>, removed_keys |-> {}]

DedupStep_EmptyCounts(acc, entry, key) ==
    LET val == entry[key]
    IN  IF val \in acc.seen
        THEN [acc EXCEPT !.removed_keys = @ \cup {val}]
        ELSE [acc EXCEPT !.seen = @ \cup {val},
                         !.new_entries = Append(@, entry)]

\* one iteration of the loop, lines 533-542
DedupStep(acc, entry, key) ==
    LET val == entry[key]
    IN  IF val \in {ValNone, ""}
        THEN [acc EXCEPT !.new_entries = Append(@, entry)]
        ELSE IF val \in acc.seen
             THEN [acc EXCEPT !.removed_keys = @ \cup {val}]
             ELSE [acc EXCEPT !.seen = @ \cup {val},
                              !.new_entries = Append(@, entry)]

RECURSIVE DedupLoop(_, _, _, _)
\* the loop of lines 533-542 from entry i on
DedupLoop(es, key, i, acc) ==
    IF i > Len(es) THEN acc
    ELSE DedupLoop(es, key, i + 1, DedupStep(acc, es[i], key))

\* the helper remove_duplicates(entries, key), lines 529-543
RemoveDuplicatesByKey(es, key) == DedupLoop(es, key, 1, LoopStart)

\* the variables of check_info_check_duplicates while another function is
\* examined
CheckIdle ==
    /\ ck_pc = "idle"
    /\ bib_database = <<>>
    /\ ck_entries = <<>>
    /\ removed_ids = {}
    /\ removed_pmids = {}
    /\ removed_dois = {}

\* lines 519-526: the file is loaded, the three sets are empty
CheckInit ==
    /\ ck_pc = "loaded"
    /\ \E k \in 0..MaxBib : \E f \in [1..k -> BibFields] :
          bib_database = Numbered(f)
    /\ ck_entries = bib_database
    /\ removed_ids = {}
    /\ removed_pmids = {}
    /\ removed_dois = {}

\* lines 546-547
PassById ==
    /\ ck_pc = "loaded"
    /\ LET r == RemoveDuplicatesByKey(ck_entries, "ID")
       IN  /\ ck_entries' = r.new_entries
           /\ removed_ids' = removed_ids \cup r.removed_keys
    /\ ck_pc' = "ids_done"
    /\ UNCHANGED <<bib_database, removed_pmids, removed_dois>>
    /\ UNCHANGED <<dd_vars, cf_vars, rf_vars, st_vars>>

\* lines 550-551
PassByPmid ==
    /\ ck_pc = "ids_done"
    /\ LET r == RemoveDuplicatesByKey(ck_entries, "pmid")
       IN  /\ ck_entries' = r.new_entries
           /\ removed_pmids' = removed_pmids \cup r.removed_keys
    /\ ck_pc' = "pmids_done"
    /\ UNCHANGED <<bib_database, removed_ids, removed_dois>>
    /\ UNCHANGED <<dd_vars, cf_vars, rf_vars, st_vars>>

\* lines 554-555
PassByDoi ==
    /\ ck_pc = "pmids_done"
    /\ LET r == RemoveDuplicatesByKey(ck_entries, "doi")
       IN  /\ ck_entries' = r.new_entries
           /\ removed_dois' = removed_dois \cup r.removed_keys
    /\ ck_pc' = "dois_done"
    /\ UNCHANGED <<bib_database, removed_ids, removed_pmids>>
    /\ UNCHANGED <<dd_vars, cf_vars, rf_vars, st_vars>>

CheckNext == PassById \/ PassByPmid \/ PassByDoi

(***************************************************************************)
(* The specifications: one function runs, the others' variables rest.      *)
(***************************************************************************)
InitDedup == DedupInit /\ FilterIdle /\ FetchIdle /\ StartIdle /\ CheckIdle

SpecDedup == InitDedup /\ [][DedupNext]_vars

InitFilter == FilterInit /\ DedupIdle /\ FetchIdle /\ StartIdle /\ CheckIdle

SpecFilter == InitFilter /\ [][FilterNext]_vars

InitFetch == FetchInit /\ DedupIdle /\ StartIdle /\ CheckIdle

SpecFetch == InitFetch /\ [][FetchNext]_vars

InitStart == StartInit /\ DedupIdle /\ FilterIdle /\ FetchIdle /\ CheckIdle

SpecStart == InitStart /\ [][StartNext]_vars

InitCheck ==
    CheckInit /\ DedupIdle /\ FilterIdle /\ FetchIdle /\ StartIdle

SpecCheck == InitCheck /\ [][CheckNext]_vars

(***************************************************************************)
(* Properties of remove_duplicates (SpecDedup).                            *)
(***************************************************************************)
Resolved == dd_pc \in {"resolved", "rerun"}

\* the entries of the output that carry the key k, in output order
Representatives(k) == SelectSeq(unique_entries, LAMBDA e : e.pmid = k)

\* the numeric value of a year string
RECURSIVE YearValue(_)
YearValue(y) ==
    IF y = <<>> THEN 0 ELSE 10 * YearValue(SubSeq(y, 1, Len(y) - 1)) + y[Len(y)]

\* the member with the earliest year, the first such in group order; members
\* without a year come after those with one
EarliestOf(g) ==
    LET dated == {i \in 1..Len(g) : g[i].year # YearNone}
        best == {i \in dated : \A j \in dated : YearValue(g[i].year) <= YearValue(g[j].year)}
    IN  IF dated = {} THEN g[1]
        ELSE g[CHOOSE i \in best : \A j \in best : i <= j]

\* the members of the group of k whose title equals the looked-up title
MatchesOf(k) ==
    SelectSeq(GroupOf(entries, k), LAMBDA e : e.title = titleService[k])

TitleReturned(k) == titleService[k] \notin {RaiseOutcome, ""}

\* the persistent identifiers shared by more than one record of the input
SharedPmids == MultiKeys(entries) \ {PmidNone}

\* C2: the record set remove_duplicates produces holds no two records with
\* the same persistent-identifier (pmid) value.
C2_UniquePmids ==
    Resolved =>
        \A i, j \in 1..Len(unique_entries) :
            (i < j /\ unique_entries[i].pmid # PmidNone)
                => unique_entries[i].pmid # unique_entries[j].pmid

C2_Witness ==
    /\ dd_pc = "resolved"
    /\ \E k \in MultiKeys(entries) : k # PmidNone /\ Len(MatchesOf(k)) >= 2
    /\ Len(unique_entries) >= 2

\* C3 (as claimed): the output is no larger than the input, and as large
\* exactly when the non-empty pmid values of the input are pairwise distinct;
\* records without a pmid never reduce the size.
C3_SizeIffDistinctPmids ==
    Resolved =>
        /\ Len(unique_entries) <= Len(entries)
        /\ (Len(unique_entries) = Len(entries)) <=>
              (\A i, j \in 1..Len(entries) :
                  (i < j /\ entries[i].pmid # PmidNone)
                      => entries[i].pmid # entries[j].pmid)

\* C4 (as claimed): a record without a pmid is a group of its own: no title
\* lookup is issued for it and it appears unchanged in the output.
C4_NoPmidIsSingleton ==
    dd_pc # "loaded" =>
        \A i \in 1..Len(entries) :
            entries[i].pmid = PmidNone =>
                /\ \A n \in 1..Len(lookups) : lookups[n] # PmidNone
                /\ Resolved =>
                      \E n \in 1..Len(unique_entries) : unique_entries[n] = entries[i]

\* C5: when the lookup returns a title and exactly one member of a group of
\* more than one record has exactly that title, that member is the group's
\* only representative in the output.
C5_SingleMatchKept ==
    Resolved =>
        \A k \in SharedPmids :
            (TitleReturned(k) /\ Len(MatchesOf(k)) = 1)
                => Representatives(k) = MatchesOf(k)

C5_Witness ==
    /\ dd_pc = "resolved"
    /\ \E k \in SharedPmids :
          /\ TitleReturned(k) /\ Len(MatchesOf(k)) = 1
          /\ MatchesOf(k)[1] # GroupOf(entries, k)[1]
          /\ MatchesOf(k)[1] # EarliestOf(GroupOf(entries, k))
          /\ Representatives(k) = MatchesOf(k)

\* C6 (as claimed): when the lookup returns a title and no member or more
\* than one member has that title, the representative is the member with the
\* earliest year, the first-encountered among equal or missing years
\* (stated here for inputs whose records all carry a year).
C6_EarliestYearUnlessSingleMatch ==
    (Resolved /\ \A i \in 1..Len(entries) : entries[i].year # YearNone) =>
        \A k \in SharedPmids :
            (TitleReturned(k) /\ Len(MatchesOf(k)) # 1)
                => Representatives(k) = <<EarliestOf(GroupOf(entries, k))>>

\* C7 (as claimed): when the title lookup fails or yields no title for a
\* group of more than one record (every record carrying a pmid and a year),
\* resolution still completes and keeps the member with the earliest year.
C7_LookupFailureFallsBackToYear ==
    (/\ dd_pc # "loaded"
     /\ \A i \in 1..Len(entries) :
            entries[i].year # YearNone /\ entries[i].pmid # PmidNone) =>
        \A k \in SharedPmids :
            ~TitleReturned(k) =>
                /\ Resolved
                /\ Representatives(k) = <<EarliestOf(GroupOf(entries, k))>>

\* C8: remove_duplicates applied to its own output, the title service
\* behaving the same, yields the same records in the same order.
C8_Idempotent ==
    dd_pc = "rerun" =>
        /\ ~again.raised
        /\ again.unique_entries = unique_entries

C8_Witness ==
    /\ dd_pc = "rerun"
    /\ Len(unique_entries) < Len(entries)
    /\ Len(unique_entries) >= 2
    /\ again.unique_entries = unique_entries

(***************************************************************************)
(* Properties of get_citations and of the citation filter (SpecFilter).    *)
(***************************************************************************)
\* the identifiers among the first n whose recorded count is (want = TRUE)
\* or is not (want = FALSE) a determined count of at least thr, in input order
RECURSIVE PickIds(_, _, _, _, _)
PickIds(ids, cs, thr, n, want) ==
    IF n = 0 THEN <<>>
    ELSE LET rest == PickIds(ids, cs, thr, n - 1, want)
             qualifies == cs[n] # CountNone /\ cs[n] >= thr
         IN  IF qualifies = want THEN Append(rest, ids[n]) ELSE rest

\* C1: every identifier occurrence processed so far is in exactly one of the
\* kept and the rejected list, in input order; it is kept iff its count is a
\* determined integer >= threshold, and never when the count is None.
C1_FilterPartition ==
    /\ Len(counts) <= Len(pmids)
    /\ cf_pc = "filtered" => Len(counts) = Len(pmids)
    /\ pmids_with_at_least_X_citations =
           PickIds(pmids, counts, threshold, Len(counts), TRUE)
    /\ pmids_sub_threshold =
           PickIds(pmids, counts, threshold, Len(counts), FALSE)
    /\ cf_pc = "filtered" => sub_threshold_file = pmids_sub_threshold

C1_Witness ==
    /\ cf_pc = "filtered"
    /\ pmids = <<"1001", "1002", "1003">>
    /\ counts = <<15, 3, CountNone>>
    /\ threshold = 10
    /\ pmids_with_at_least_X_citations = <<"1001">>
    /\ pmids_sub_threshold = <<"1002", "1003">>

\* C9: get_citations issues at most 3 requests, retries only after an HTTP
\* failure, returns None after the 3rd consecutive HTTP failure, returns 0 at
\* once on an empty or unparsable answer, returns None at once on any other
\* failure, and otherwise returns the link count of the first good answer.
C9_GetCitationsRetries ==
    /\ requests <= 3
    /\ requests = Len(outcomes)
    /\ \A n \in 1..(Len(outcomes) - 1) : outcomes[n].kind = "http_error"
    /\ cf_pc = "request" =>
          /\ Len(outcomes) < 3
          /\ \A n \in 1..Len(outcomes) : outcomes[n].kind = "http_error"
    /\ (cf_pc = "returned" /\ outcomes # <<>>) =>
          LET last == outcomes[Len(outcomes)]
          IN  /\ last.kind = "http_error" =>
                    Len(outcomes) = 3 /\ citation_count = CountNone
              /\ last.kind \in {"empty", "parse_error"} => citation_count = 0
              /\ last.kind = "unexpected" => citation_count = CountNone
              /\ last.kind = "ok" =>
                    citation_count = last.links /\ citation_count >= 0
    /\ CountNone # 0

C9_Witness ==
    /\ cf_pc = "returned"
    /\ Len(outcomes) = 3
    /\ \A n \in 1..3 : outcomes[n].kind = "http_error"
    /\ citation_count = CountNone

(***************************************************************************)
(* Properties of the record-fetch loop (SpecFetch).                        *)
(***************************************************************************)
AllPrimaryFailed ==
    /\ Len(primary_outcomes) = 5
    /\ \A n \in 1..5 : primary_outcomes[n] = "fail"

\* C10: for each kept identifier the primary retrieval is attempted at most
\* 5 times and stops at the first success; the delay after the k-th failed
\* attempt is 3 + 0.5*(k-1) seconds (6 + (k-1) half seconds); the fallback is
\* attempted only after 5 failed primary attempts and then exactly once; a
\* total failure is reported only if all of them failed.
C10_PrimaryThenFallback ==
    rf_pc # "idle" =>
        /\ Len(primary_outcomes) <= 5
        /\ \A n \in 1..(Len(primary_outcomes) - 1) : primary_outcomes[n] = "fail"
        /\ rf_pc \in {"primary", "exhausted", "fallback"} =>
              \A n \in 1..Len(primary_outcomes) : primary_outcomes[n] = "fail"
        /\ Len(sleeps) =
              Cardinality({n \in 1..Len(primary_outcomes) : primary_outcomes[n] = "fail"})
        /\ \A k \in 1..Len(sleeps) : sleeps[k] = 2 * 3 + (k - 1)
        /\ fallback_calls <= 1
        /\ fallback_calls = 1 => AllPrimaryFailed
        /\ (AllPrimaryFailed /\ rf_pc \notin {"primary", "exhausted", "fallback"})
              => fallback_calls = 1
        /\ (rf_pc = "next" /\ pos > 0 /\ postfix = "Failed both") =>
              /\ AllPrimaryFailed
              /\ fallback_calls = 1
              /\ bibtex_entry = EntryNone
              /\ errors # <<>>
              /\ errors[Len(errors)] = [pmid |-> CurrentPmid, kind |-> "retrieve"]

C10_Witness ==
    /\ rf_pc = "next"
    /\ pos = 2
    /\ postfix = "Failed both"
    /\ sleeps = <<6, 7, 8, 9, 10>>
    /\ fallback_calls = 1
    /\ Len(bib_file) = 1
    /\ bib_file[1].source = "primary"

\* the positions of the processed identifiers whose retrieval ended with v
PrimaryEnded(v) == {i \in 1..Len(retrievals) : retrievals[i].primary = v}

FallbackEnded(v) == {i \in 1..Len(retrievals) : retrievals[i].fallback = v}

\* C11: when ref_gen ends, entrez_fail_count is the number of kept identifiers
\* whose primary retrieval ran out of attempts and crossref_fail_count the
\* number of kept identifiers whose fallback retrieval failed as well; at
\* every point crossref_fail_count <= entrez_fail_count.
C11_FailureCounters ==
    /\ crossref_fail_count <= entrez_fail_count
    /\ rf_pc = "done" =>
          /\ Len(retrievals) = Len(pmids_with_at_least_X_citations)
          /\ \A i \in 1..Len(retrievals) :
                retrievals[i].pmid = pmids_with_at_least_X_citations[i]
          /\ entrez_fail_count = Cardinality(PrimaryEnded("exhausted"))
          /\ crossref_fail_count = Cardinality(FallbackEnded("nothing"))

C11_Witness ==
    /\ rf_pc = "done"
    /\ Len(retrievals) = 2
    /\ retrievals[1].primary = "exhausted"
    /\ retrievals[1].fallback = "record"
    /\ retrievals[2].fallback = "nothing"
    /\ entrez_fail_count = 2
    /\ crossref_fail_count = 1

\* C12: an unrecoverable failure for one kept identifier (primary exhausted
\* and fallback failed, the DOI request failing, the write failing twice)
\* never ends the run: ref_gen does not stop before the end of the list, the
\* failure is in the error log and every identifier of the list is processed.
C12_FailureNeverAborts ==
    /\ rf_pc # "aborted"
    /\ rf_pc = "done" =>
          /\ pmid_file = pmids_with_at_least_X_citations
          /\ Len(bib_file) + Len(errors) = Len(pmids_with_at_least_X_citations)
          /\ error_file = errors

(***************************************************************************)
(* Properties of the script start (SpecStart).                             *)
(***************************************************************************)
\* C13: if the email or the API key is left at its placeholder,
\* validate_ncbi_credentials ends the program before any pipeline work: no
\* output file is deleted, no identifier list is listed or read, no request
\* is sent; if neither is a placeholder the program is not ended there and
\* goes on to the deletion of the old output files.
C13_PlaceholderStopsBeforeWork ==
    st_pc # "idle" =>
        /\ (email = "placeholder@change.com"
             \/ api_key = "8e7f2a9b4c1d6e3f9g2h5i8j1k4l7m0n9p2q") =>
              /\ st_pc \in {"start", "exited"}
              /\ removed = {}
              /\ pending = {}
              /\ spec_list = {}
              /\ lists_read = {}
              /\ requested = {}
              /\ file_paths = {}
        /\ (email # "placeholder@change.com"
             /\ api_key # "8e7f2a9b4c1d6e3f9g2h5i8j1k4l7m0n9p2q") =>
              st_pc \in {"start", "clear", "run", "aborted", "combine"}

\* only the API key is a placeholder and the program has ended, with old
\* output files and identifier lists at hand
C13_Witness ==
    /\ st_pc = "exited"
    /\ email # "placeholder@change.com"
    /\ api_key = "8e7f2a9b4c1d6e3f9g2h5i8j1k4l7m0n9p2q"
    /\ targ_dir = OldOutputFiles
    /\ pmid_dir = SearchSpecs

\* the identifiers of the list whose iteration is over
Finished == IF rf_pc \in {"next", "done"} THEN pos ELSE pos - 1

\* C14: when the write of the enriched record fails with an encoding error,
\* the record is sanitized and the write is tried exactly once more; if that
\* fails too, exactly one error naming the identifier is logged and no record
\* is written for it; never more than one record is written for one kept
\* identifier.
C14_WriteRetriedOnce ==
    rf_pc # "idle" =>
        /\ Len(writes) <= 2
        /\ Len(writes) >= 1 => writes[1].text = "enriched"
        /\ (Len(writes) = 1 /\ ~writes[1].written) =>
              rf_pc \in {"sanitize", "sanitized_write"}
        /\ Len(writes) = 2 =>
              /\ ~writes[1].written
              /\ writes[2].text = "sanitized"
              /\ sanitized.sanitized
              /\ sanitized.id = CurrentPmid
        /\ Cardinality({i \in 1..Len(writes) : writes[i].written}) <= 1
        /\ Len(bib_file) + Len(errors) = Finished
        /\ (Len(writes) = 2 /\ ~writes[2].written) =>
              /\ rf_pc \in {"next", "done"}
              /\ errors[Len(errors)] = [pmid |-> CurrentPmid, kind |-> "write"]
        /\ (Len(writes) = 2 /\ writes[2].written) =>
              /\ rf_pc \in {"next", "done"}
              /\ bib_file[Len(bib_file)] = sanitized

\* C15: in every call of append_doi_pmid_to_entry the primary DOI service is
\* queried first; the secondary one is queried, once, exactly when the primary
\* gave no DOI (it failed or found none) and never when it gave one; the DOI
\* line inserted comes from the first service that gave a DOI, and no DOI line
\* is inserted when neither gave one.
C15_PrimaryThenSecondary ==
    rf_pc # "idle" =>
        /\ \A c \in 1..Len(doi_lookups) :
              LET call == doi_lookups[c]
              IN  /\ call[1].service = "entrez"
                  /\ Len(call) <= 2
                  /\ Len(call) = 2 => call[2].service = "crossref"
                  /\ (Len(call) = 2) <=> (call[1].answer # "doi")
        /\ rf_pc = "write" =>
              /\ Len(doi_lookups) = 1
              /\ bibtex_entry.doi_added =
                    IF \E i \in 1..Len(doi_lookups[1]) :
                          doi_lookups[1][i].answer = "doi"
                    THEN 1 ELSE 0

(***************************************************************************)
(* Properties of check_info_check_duplicates (SpecCheck).                  *)
(***************************************************************************)
\* entry e carries a value for key that an earlier entry of es carries too
RepeatsEarlier(es, e, key) ==
    /\ e[key] \notin {ValNone, ""}
    /\ \E j \in 1..Len(es) : es[j].n < e.n /\ es[j][key] = e[key]

\* the entries of es that carry no value for key or carry it first
FirstWins(es, key) ==
    LET Stays(e) == ~RepeatsEarlier(es, e, key)
    IN  SelectSeq(es, Stays)

\* the values of the entries of es that repeat an earlier entry's value
Repeated(es, key) ==
    {es[i][key] : i \in {j \in 1..Len(es) : RepeatsEarlier(es, es[j], key)}}

\* C16: the duplicate check makes three passes, by entry key, by pmid, by
\* doi, each over the entries the pass before left: a pass keeps the first
\* entry with a given non-empty value, removes every later entry with that
\* value and reports the value; it never removes an entry whose value is
\* empty or absent; an entry removed by the entry-key pass is not seen by
\* the later passes.
C16_ThreePassesFirstWins ==
    ck_pc # "idle" =>
        LET by_id == FirstWins(bib_database, "ID")
            by_pmid == FirstWins(by_id, "pmid")
            by_doi == FirstWins(by_pmid, "doi")
        IN  /\ ck_pc = "loaded" => ck_entries = bib_database
            /\ ck_pc = "ids_done" => ck_entries = by_id
            /\ ck_pc = "pmids_done" => ck_entries = by_pmid
            /\ ck_pc = "dois_done" => ck_entries = by_doi
            /\ removed_ids =
                  IF ck_pc = "loaded" THEN {} ELSE Repeated(bib_database, "ID")
            /\ removed_pmids =
                  IF ck_pc \in {"loaded", "ids_done"} THEN {}
                  ELSE Repeated(by_id, "pmid")
            /\ removed_dois =
                  IF ck_pc = "dois_done" THEN Repeated(by_pmid, "doi") ELSE {}

\* the second entry repeats the key of the first and is removed by the first
\* pass; the third carries the second's pmid and stays; the empty dois of the
\* first and the third remove nothing
C16_Witness ==
    /\ ck_pc = "dois_done"
    /\ Len(bib_database) = 3
    /\ bib_database[1].ID = bib_database[2].ID
    /\ bib_database[3].ID # bib_database[1].ID
    /\ bib_database[1].pmid = ValNone
    /\ bib_database[2].pmid = "555"
    /\ bib_database[3].pmid = "555"
    /\ bib_database[1].doi = ""
    /\ bib_database[3].doi = ""
    /\ ck_entries = <<bib_database[1], bib_database[3]>>
    /\ removed_ids = {bib_database[1].ID}
    /\ removed_pmids = {}
    /\ removed_dois = {}

(***************************************************************************)
(* Properties of the records ref_gen writes (SpecFetch).                   *)
(***************************************************************************)
\* C17: every record written to the .bib file holds at most one inserted DOI
\* line and at most one inserted pmid line, whether it was written at the
\* first attempt or after sanitization: the text written was enriched once.
C17_FieldsInjectedOnce ==
    \A i \in 1..Len(bib_file) :
        /\ bib_file[i].doi_added <= 1
        /\ bib_file[i].pmid_added <= 1

\* how often id occurs in the sequence s
Occurrences(s, id) == Cardinality({i \in 1..Len(s) : s[i] = id})

\* C18: when ref_gen has gone through the kept identifiers, each of them is
\* in the above-threshold list exactly once, in order, whether or not a
\* record was obtained; the number of records written is the number of kept
\* identifiers minus the number of logged errors, every kept identifier
\* having given either one written record or one error-log entry.
C18_OneRecordOrOneError ==
    rf_pc = "done" =>
        LET kept == pmids_with_at_least_X_citations
            written == [i \in 1..Len(bib_file) |-> bib_file[i].id]
            failed == [i \in 1..Len(errors) |-> errors[i].pmid]
        IN  /\ pmid_file = kept
            /\ Len(bib_file) = Len(kept) - Len(errors)
            /\ error_file = errors
            /\ \A id \in KeptIds :
                  Occurrences(kept, id) =
                      Occurrences(written, id) + Occurrences(failed, id)

C18_Witness ==
    /\ rf_pc = "done"
    /\ pmids_with_at_least_X_citations = <<"1001", "1002">>
    /\ pmid_file = <<"1001", "1002">>
    /\ Len(bib_file) = 1
    /\ bib_file[1].id = "1002"
    /\ errors = <<[pmid |-> "1001", kind |-> "write"]>>

====
